---------------------------- MODULE Spec2Model ----------------------------
(***************************************************************************)
(* GET /nba/teamstats of the nba-stats-proxy: the handler of src/server.js *)
(* and the cookie-jar variant of src/unnamed/part_000, as state machines   *)
(* over the requests in flight.  Text (content types, bodies, cookies,     *)
(* query values, URLs) is modelled as strings, character by character.     *)
(***************************************************************************)
EXTENDS Integers, Sequences, FiniteSets, TLC

(***************************************************************************)
(* JavaScript values that are not strings.                                 *)
(***************************************************************************)
Undefined == [t |-> "undefined"]
Null == [t |-> "null"]

\* a ?? b
Nullish(a, b) == IF a = Undefined \/ a = Null THEN b ELSE a

(***************************************************************************)
(* String primitives of the JavaScript runtime the handlers use.           *)
(***************************************************************************)
SetMin(S) == CHOOSE x \in S : \A y \in S : x <= y
SetMax(S) == CHOOSE x \in S : \A y \in S : x >= y

\* s.charAt(i - 1): "" outside the string
Ch(s, i) == IF i \in 1..Len(s) THEN SubSeq(s, i, i) ELSE ""

\* s.substring(a - 1, b), clamped to the string
Sub(s, a, b) == SubSeq(s, a, IF b > Len(s) THEN Len(s) ELSE b)

\* String.prototype.trim strips these (among the characters the model uses).
TrimWhitespace == {" ", "\t", "\n", "\r", "\f"}

\* s.slice(0, n)
Slice(s, n) == SubSeq(s, 1, IF Len(s) < n THEN Len(s) ELSE n)

\* s.trim()
Trim(s) ==
  LET keep == {i \in 1..Len(s) : Ch(s, i) \notin TrimWhitespace}
  IN  IF keep = {} THEN "" ELSE SubSeq(s, SetMin(keep), SetMax(keep))

\* s.startsWith(p)
StartsWith(s, p) == Len(s) >= Len(p) /\ SubSeq(s, 1, Len(p)) = p

\* s.includes(sub)
Includes(s, sub) ==
  \E i \in 1..(Len(s) - Len(sub) + 1) : SubSeq(s, i, i + Len(sub) - 1) = sub

UpperLetters == "ABCDEFGHIJKLMNOPQRSTUVWXYZ"
LowerLetters == "abcdefghijklmnopqrstuvwxyz"

\* the characters of s
Chars(s) == {Ch(s, i) : i \in 1..Len(s)}

LowerOf ==
  [c \in Chars(UpperLetters) |->
     Ch(LowerLetters, CHOOSE i \in 1..Len(UpperLetters) : Ch(UpperLetters, i) = c)]

LowerChar(c) == IF c \in DOMAIN LowerOf THEN LowerOf[c] ELSE c

RECURSIVE ToLowerCase(_)
\* s.toLowerCase()
ToLowerCase(s) ==
  IF s = "" THEN "" ELSE LowerChar(Ch(s, 1)) \o ToLowerCase(SubSeq(s, 2, Len(s)))

\* s.split(sep)[0], sep a single character
SplitFirst(s, sep) ==
  LET at == {i \in 1..Len(s) : Ch(s, i) = sep}
  IN  IF at = {} THEN s ELSE SubSeq(s, 1, SetMin(at) - 1)

RECURSIVE Join(_, _)
\* list.join(sep)
Join(list, sep) ==
  IF Len(list) = 0 THEN ""
  ELSE IF Len(list) = 1 THEN list[1]
  ELSE list[1] \o sep \o Join(Tail(list), sep)

(***************************************************************************)
(* JSON.parse, on JSON texts without number fractions or exponents and     *)
(* without backslash escapes in strings.  A parsed value is a tagged       *)
(* record; an object is a function of its keys, a later duplicate key      *)
(* replacing the earlier one.                                              *)
(***************************************************************************)
JsonWhitespace == {" ", "\t", "\n", "\r"}
Digits == "0123456789"
DigitOf == [c \in Chars(Digits) |-> (CHOOSE i \in 1..10 : Ch(Digits, i) = c) - 1]
IsDigit(c) == c \in DOMAIN DigitOf
DigitValue(c) == DigitOf[c]

ParseFail == [ok |-> FALSE, next |-> 0, val |-> Undefined]
ParseOk(v, n) == [ok |-> TRUE, next |-> n, val |-> v]

\* the first position at or after i that holds no JSON whitespace
SkipWs(s, i) ==
  LET rest == {j \in i..Len(s) : Ch(s, j) \notin JsonWhitespace}
  IN  IF rest = {} THEN Len(s) + 1 ELSE SetMin(rest)

\* the end of the digit run that starts at i
DigitsEnd(s, i) ==
  LET stop == {j \in i..Len(s) : ~IsDigit(Ch(s, j))}
  IN  IF stop = {} THEN Len(s) + 1 ELSE SetMin(stop)

RECURSIVE NumberValue(_)
NumberValue(d) ==
  IF d = "" THEN 0
  ELSE 10 * NumberValue(SubSeq(d, 1, Len(d) - 1)) + DigitValue(Ch(d, Len(d)))

\* -?(0|[1-9][0-9]*)
ParseNumber(s, i) ==
  LET neg == Ch(s, i) = "-"
      d == IF neg THEN i + 1 ELSE i
      e == DigitsEnd(s, d)
      v == NumberValue(SubSeq(s, d, e - 1))
  IN  IF e = d THEN ParseFail
      ELSE IF Ch(s, d) = "0" /\ e > d + 1 THEN ParseFail
      ELSE IF Ch(s, e) \in {".", "e", "E"} THEN ParseFail
      ELSE ParseOk([t |-> "num", v |-> IF neg THEN 0 - v ELSE v], e)

\* "..." with no escapes and no control characters
ParseString(s, i) ==
  LET close == {j \in (i + 1)..Len(s) : Ch(s, j) = "\""}
      e == SetMin(close)
      body == SubSeq(s, i + 1, e - 1)
  IN  IF Ch(s, i) # "\"" \/ close = {} THEN ParseFail
      ELSE IF \E j \in 1..Len(body) :
                Ch(body, j) \in {"\t", "\n", "\r", "\f", "\\"} THEN ParseFail
      ELSE ParseOk([t |-> "str", v |-> body], e + 1)

ParseLiteral(s, i) ==
  LET hit == {w \in {"true", "false", "null"} : Sub(s, i, i + Len(w) - 1) = w}
      w == CHOOSE x \in hit : TRUE
  IN  IF hit = {} \/ i > Len(s) THEN ParseFail
      ELSE ParseOk([t |-> "lit", v |-> w], i + Len(w))

RECURSIVE ParseValue(_, _), ParseElements(_, _, _), ParseMembers(_, _, _)

\* after "[" or ",": value ws ("," ws value ws)* "]"
ParseElements(s, i, acc) ==
  LET r == ParseValue(s, SkipWs(s, i))
      n == SkipWs(s, r.next)
  IN  IF ~r.ok THEN ParseFail
      ELSE IF Ch(s, n) = "]"
        THEN ParseOk([t |-> "arr", v |-> Append(acc, r.val)], n + 1)
      ELSE IF Ch(s, n) = ","
        THEN ParseElements(s, n + 1, Append(acc, r.val))
      ELSE ParseFail

\* after "{" or ",": string ws ":" ws value ws ("," ...)* "}"
ParseMembers(s, i, acc) ==
  LET k == ParseString(s, SkipWs(s, i))
      c == SkipWs(s, k.next)
      r == ParseValue(s, SkipWs(s, c + 1))
      n == SkipWs(s, r.next)
      put == [x \in DOMAIN acc \cup {k.val.v} |->
                IF x = k.val.v THEN r.val ELSE acc[x]]
  IN  IF ~k.ok THEN ParseFail
      ELSE IF Ch(s, c) # ":" THEN ParseFail
      ELSE IF ~r.ok THEN ParseFail
      ELSE IF Ch(s, n) = "}" THEN ParseOk([t |-> "obj", v |-> put], n + 1)
      ELSE IF Ch(s, n) = "," THEN ParseMembers(s, n + 1, put)
      ELSE ParseFail

EmptyObject == [x \in {} |-> Undefined]

ParseValue(s, i) ==
  LET c == Ch(s, i)
  IN  IF i > Len(s) THEN ParseFail
      ELSE IF c = "{" THEN
        IF Ch(s, SkipWs(s, i + 1)) = "}"
          THEN ParseOk([t |-> "obj", v |-> EmptyObject], SkipWs(s, i + 1) + 1)
          ELSE ParseMembers(s, i + 1, EmptyObject)
      ELSE IF c = "[" THEN
        IF Ch(s, SkipWs(s, i + 1)) = "]"
          THEN ParseOk([t |-> "arr", v |-> <<>>], SkipWs(s, i + 1) + 1)
          ELSE ParseElements(s, i + 1, <<>>)
      ELSE IF c = "\"" THEN ParseString(s, i)
      ELSE IF c = "-" \/ IsDigit(c) THEN ParseNumber(s, i)
      ELSE ParseLiteral(s, i)

\* JSON.parse(text): ok is FALSE where JSON.parse throws
JSONParse(text) ==
  LET r == ParseValue(text, SkipWs(text, 1))
  IN  IF r.ok /\ SkipWs(text, r.next) = Len(text) + 1
        THEN [ok |-> TRUE, val |-> r.val]
        ELSE [ok |-> FALSE, val |-> Undefined]

(***************************************************************************)
(* JavaScript values a handler reads that may be missing: a query value,   *)
(* a header, a field of an error.                                          *)
(***************************************************************************)
Str(s) == [t |-> "str", v |-> s]
Arr(l) == [t |-> "arr", v |-> l]

\* Array.isArray(v)
IsArray(v) == v.t = "arr"

\* String(v), v a string or a list of strings
ToStr(v) == IF v.t = "str" THEN v.v ELSE Join(v.v, ",")

\* a || b, a missing or a string or a list
Falsy(a) == a = Undefined \/ a = Null \/ a = Str("")
OrElse(a, b) == IF Falsy(a) THEN b ELSE a

(***************************************************************************)
(* URL and URLSearchParams.                                                *)
(***************************************************************************)
Unreserved ==
  "ABCDEFGHIJKLMNOPQRSTUVWXYZabcdefghijklmnopqrstuvwxyz0123456789*-._"

\* the percent codes of the other characters the model's texts hold
PercentCodes ==
  << <<"&", "%26">>, <<"=", "%3D">>, <<"+", "%2B">>, <<"%", "%25">>,
     <<",", "%2C">>, <<"/", "%2F">>, <<"?", "%3F">>, <<"#", "%23">>,
     <<";", "%3B">>, <<":", "%3A">> >>

UnreservedChars == Chars(Unreserved)

PercentOf ==
  [c \in {PercentCodes[i][1] : i \in 1..Len(PercentCodes)} |->
     PercentCodes[CHOOSE i \in 1..Len(PercentCodes) : PercentCodes[i][1] = c][2]]

\* application/x-www-form-urlencoded, one character
FormEncodeChar(c) ==
  IF c \in UnreservedChars THEN c
  ELSE IF c = " " THEN "+"
  ELSE PercentOf[c]

RECURSIVE FormEncode(_)
FormEncode(s) ==
  IF s = "" THEN "" ELSE FormEncodeChar(Ch(s, 1)) \o FormEncode(SubSeq(s, 2, Len(s)))

\* new URL(href)
NewURL(href) == [href |-> href, searchParams |-> <<>>]

\* u.searchParams.set(name, value): the first pair of that name takes the
\* value and the others go; a new name is appended
SearchParamsSet(u, name, value) ==
  LET ps == u.searchParams
      at == {i \in 1..Len(ps) : ps[i][1] = name}
      keep == SelectSeq([i \in 1..Len(ps) |-> <<i, ps[i]>>],
                        LAMBDA e : e[2][1] # name \/ e[1] = SetMin(at))
  IN  [u EXCEPT !.searchParams =
         IF at = {} THEN Append(ps, <<name, value>>)
         ELSE [i \in 1..Len(keep) |->
                 IF keep[i][2][1] = name THEN <<name, value>> ELSE keep[i][2]]]

SerializePair(p) == FormEncode(p[1]) \o "=" \o FormEncode(p[2])

\* u.toString()
UrlToString(u) ==
  IF u.searchParams = <<>> THEN u.href
  ELSE u.href \o "?" \o Join([i \in 1..Len(u.searchParams) |-> SerializePair(u.searchParams[i])], "&")

RECURSIVE SetAll(_, _)
\* u.searchParams.set for each pair of a list, in order
SetAll(u, pairs) ==
  IF pairs = <<>> THEN u
  ELSE SetAll(SearchParamsSet(u, pairs[1][1], pairs[1][2]), Tail(pairs))

(***************************************************************************)
(* The handlers' pure parts.                                               *)
(***************************************************************************)
StatsEndpoint == "https://stats.nba.com/stats/leaguedashteamstats"
DefaultSeason == "2025-26"
DefaultSeasonType == "Regular Season"

\* req.query.season || "2025-26"
SeasonOrElse(query) == OrElse(query.season, Str(DefaultSeason))

\* req.query.season ?? "2025-26"
Season(query) == Nullish(query.season, Str(DefaultSeason))

\* req.query.seasonType ?? "Regular Season"
SeasonType(query) == Nullish(query.seasonType, Str(DefaultSeasonType))

\* the caller's LeagueID let through to the upstream URL
NbaUrlSpread(query) ==
  SetAll(NewURL(StatsEndpoint),
         << <<"Season", ToStr(Season(query))>>,
            <<"SeasonType", ToStr(SeasonType(query))>>,
            <<"LeagueID", ToStr(Nullish(query.LeagueID, Str("00")))>>,
            <<"PerMode", "Totals">>,
            <<"MeasureType", "Base">> >>)

\* server.js: the URL of the stats GET
NbaUrl(query) ==
  SetAll(NewURL(StatsEndpoint),
         << <<"Season", ToStr(Season(query))>>,
            <<"SeasonType", ToStr(SeasonType(query))>>,
            <<"LeagueID", "00">>,
            <<"PerMode", "Totals">>,
            <<"MeasureType", "Base">> >>)

\* part_000: the URL of the stats GET
buildLeagueDashTeamStatsUrl(season, seasonType) ==
  SetAll(NewURL(StatsEndpoint),
         << <<"LeagueID", "00">>,
            <<"Season", ToStr(season)>>,
            <<"SeasonType", ToStr(seasonType)>>,
            <<"PerMode", "Totals">>,
            <<"MeasureType", "Base">>,
            <<"Conference", "">>, <<"Division", "">>, <<"Location", "">>,
            <<"Outcome", "">>, <<"PORound", "0">>, <<"DateFrom", "">>,
            <<"DateTo", "">>, <<"OpponentTeamID", "0">>,
            <<"VsConference", "">>, <<"VsDivision", "">>, <<"TeamID", "0">>,
            <<"GameSegment", "">>, <<"Period", "0">>, <<"LastNGames", "0">>,
            <<"Month", "0">>, <<"SeasonSegment", "">>,
            <<"ShotClockRange", "">>, <<"GameScope", "">>,
            <<"PlayerExperience", "">>, <<"PlayerPosition", "">>,
            <<"StarterBench", "">>,
            <<"PlusMinus", "N">>, <<"PaceAdjust", "N">>, <<"Rank", "N">> >>)

NoHeaders == [n \in {} |-> ""]

CorsHeaders ==
  [n \in {"Access-Control-Allow-Origin", "Access-Control-Allow-Methods",
          "Access-Control-Allow-Headers"} |->
     IF n = "Access-Control-Allow-Origin" THEN "*"
     ELSE IF n = "Access-Control-Allow-Methods" THEN "GET,OPTIONS"
     ELSE "Content-Type"]

\* res.setHeader(name, value) for each header of more
SetHeaders(h, more) ==
  [n \in DOMAIN h \cup DOMAIN more |-> IF n \in DOMAIN more THEN more[n] ELSE h[n]]

\* setCors(res)
setCors(h) == SetHeaders(h, CorsHeaders)

\* a catch block that answers without setCors(res)
CatchHeadersBare(h) == h

\* the headers of res when the catch block of server.js answers
CatchHeaders(h) == setCors(h)

\* res.status(status).json(body): the response as the caller receives it
ResJson(h, status, body) ==
  [status |-> status,
   headers |-> SetHeaders(h, [n \in {"Content-Type"} |->
                                "application/json; charset=utf-8"]),
   body |-> body]

CookiePair(c) == SplitFirst(c, ";")

\* prime.headers["set-cookie"] || []
SetCookies(prime) == OrElse(prime.setCookie, Arr(<<>>))

\* the whole Set-Cookie entries, attributes and all, joined
CookieHeaderUnsplit(setCookies) ==
  IF IsArray(setCookies) THEN Join(setCookies.v, "; ") ELSE ""

\* server.js: cookieHeader
CookieHeader(setCookies) ==
  IF IsArray(setCookies)
    THEN Join([i \in 1..Len(setCookies.v) |-> CookiePair(setCookies.v[i])], "; ")
    ELSE ""

\* server.js: ...(cookieHeader ? { "Cookie": cookieHeader } : {})
CookieField(cookieHeader) ==
  IF cookieHeader # "" THEN Str(cookieHeader) ELSE Undefined

SnippetLength == 500
JarSnippetLength == 1200

\* the content type compared as it came, not lowered
LooksLikeJsonCaseSensitive(contentType, snippet) ==
  \/ Includes(Nullish(contentType, Str("")).v, "application/json")
  \/ StartsWith(Trim(snippet), "{")

\* server.js: the condition under which the body is handed to JSON.parse
LooksLikeJson(contentType, snippet) ==
  \/ Includes(ToLowerCase(Nullish(contentType, Str("")).v), "application/json")
  \/ StartsWith(Trim(snippet), "{")

\* Object.keys(nbaResp.headers); content-type is the one upstream header kept
HeaderKeys(resp) ==
  IF resp.contentType = Undefined THEN <<>> ELSE <<"content-type">>

\* an upstream error status answered as 502
PassThroughStatusGuarded(nbaResp) ==
  IF nbaResp.status >= 400 THEN 502 ELSE nbaResp.status

\* server.js: the status of a pass-through
PassThroughStatus(nbaResp) == nbaResp.status

\* server.js: the debug payload
DebugPayload(nbaResp, prime) ==
  [ok |-> FALSE,
   error |-> "Upstream did not return JSON",
   upstreamStatus |-> nbaResp.status,
   contentType |-> Nullish(nbaResp.contentType, Null),
   headerKeys |-> HeaderKeys(nbaResp),
   primeStatus |-> prime.status,
   primeSetCookieCount |->
     IF IsArray(SetCookies(prime)) THEN Len(SetCookies(prime).v) ELSE 0,
   snippet |-> Slice(nbaResp.data, SnippetLength)]

\* server.js: what the handler answers to an upstream response
Respond(h, nbaResp, prime) ==
  LET rawText == nbaResp.data
      snippet == Slice(rawText, SnippetLength)
      json == JSONParse(rawText)
  IN  IF LooksLikeJson(nbaResp.contentType, snippet) /\ json.ok
        THEN ResJson(h, PassThroughStatus(nbaResp), json.val)
        ELSE ResJson(h, 502, DebugPayload(nbaResp, prime))

\* a catch block that answers 502 and leaves the code out
FailureResponseBadGateway(h, err) ==
  ResJson(h, 502,
          [error |-> "NBA request failed",
           details |-> Nullish(err.message, Str(err.str))])

\* server.js: what the catch block answers
FailureResponse(h, err) ==
  ResJson(h, 500,
          [error |-> "NBA request failed",
           details |-> Nullish(err.message, Str(err.str)),
           code |-> Nullish(err.code, Null)])

\* part_000: the diagnostics primeNbaCookies returns
PrimeDiagnostics(r) ==
  [primeStatus |-> r.status,
   primeSetCookieCount |->
     IF IsArray(Nullish(r.setCookie, Arr(<<>>)))
       THEN Len(Nullish(r.setCookie, Arr(<<>>)).v) ELSE 0]

\* part_000: what the handler answers to an upstream response (the body is
\* text, responseType "text")
JarRespond(h, upstream, prime) ==
  LET json == JSONParse(upstream.data)
  IN  IF StartsWith(Trim(upstream.data), "{") /\ json.ok
        THEN ResJson(h, upstream.status, json.val)
        ELSE ResJson(h, 502,
               [ok |-> FALSE,
                prime |-> prime,
                upstreamStatus |-> upstream.status,
                contentType |-> Nullish(upstream.contentType, Null),
                headerKeys |-> HeaderKeys(upstream),
                snippet |-> Slice(upstream.data, JarSnippetLength)])

(***************************************************************************)
(* The inputs: what a caller may ask, what the priming GET and the stats   *)
(* GET may bring back, how either may fail.                                *)
(***************************************************************************)
NumRequests == 2
MaxCookies == 2

Requests == 1..NumRequests
Files == {"server.js", "part_000"}

Query(season, seasonType, leagueID) ==
  [season |-> season, seasonType |-> seasonType, LeagueID |-> leagueID]

\* req.query: a key that is absent, given once, given empty, given twice
RichQueries ==
  {Query(s, st, l) :
     s \in {Undefined, Str(""), Str("2024-25"), Str("a&b=c d+%"),
            Arr(<<"2023-24", "2024-25">>)},
     st \in {Undefined, Str(""), Str("Playoffs"), Str("Pre Season")},
     l \in {Undefined, Str("10")}}

FewQueries ==
  {Query(Undefined, Undefined, Undefined),
   Query(Str("2024-25"), Undefined, Undefined),
   Query(Str("2024-25"), Undefined, Str("10"))}

PrimeResponse(status, setCookie) == [status |-> status, setCookie |-> setCookie]

SetCookieEntries == {"ak_bmsc=X1; Path=/; HttpOnly", "sid=7", "; Path=/"}

RECURSIVE ListsUpTo(_, _)
\* the lists of at most n elements of S
ListsUpTo(S, n) ==
  IF n = 0 THEN {<<>>}
  ELSE LET shorter == ListsUpTo(S, n - 1)
       IN  shorter \cup {Append(l, e) : l \in shorter, e \in S}

\* a priming response: no Set-Cookie, a Set-Cookie that is no list, or a list
RichPrimes ==
  {PrimeResponse(st, sc) :
     st \in {200, 403},
     sc \in {Undefined, Str("sid=7; Path=/")}
            \cup {Arr(l) : l \in ListsUpTo(SetCookieEntries, MaxCookies) \ {<<>>}}}

\* two callers with the same season, one of them asking for another league
PairQueries ==
  {Query(Str("2024-25"), Undefined, Undefined),
   Query(Str("2024-25"), Undefined, Str("10"))}

FewPrimes ==
  {PrimeResponse(200, Arr(<<"sid=1; Path=/">>)),
   PrimeResponse(200, Arr(<<"sid=2; Path=/", "geo=us">>)),
   PrimeResponse(403, Undefined)}

StatsResponse(status, contentType, data) ==
  [status |-> status, contentType |-> contentType, data |-> data]

RECURSIVE Repeat(_, _)
\* n times the character c
Repeat(c, n) ==
  IF n = 0 THEN ""
  ELSE LET half == Repeat(c, n \div 2)
       IN  half \o half \o (IF n % 2 = 1 THEN c ELSE "")

Bodies ==
  {"", "{}", "{\"resultSets\":[{\"headers\":[\"FGA\",\"FG3A\"]}]}",
   " \n{\"a\": 1, \"a\": 2}\n", "[1, 2]", "17", "null",
   "{", "{\"a\":1,}", "{\"a\":1} x", "\f{}",
   "<!DOCTYPE html><html>Access Denied</html>",
   Repeat(" ", SnippetLength - 1) \o "{}",
   Repeat(" ", SnippetLength) \o "{}",
   "{" \o Repeat(" ", SnippetLength) \o "}",
   "{" \o Repeat("x", SnippetLength + 1)}

ContentTypes ==
  {Undefined, Str(""), Str("application/json"),
   Str("Application/JSON; charset=utf-8"), Str("text/html; charset=utf-8")}

RichStats ==
  {StatsResponse(st, ct, b) :
     st \in {200, 403, 500}, ct \in ContentTypes, b \in Bodies}

FewStats ==
  {StatsResponse(200, Str("application/json"), "{\"resultSets\":[]}"),
   StatsResponse(403, Str("text/html"), "<html>Access Denied</html>")}

\* what axios rejects with, and a thrown value that is no Error
Failure(message, code, str) == [message |-> message, code |-> code, str |-> str]

Errors ==
  {Failure(Str("timeout of 20000ms exceeded"), Str("ECONNABORTED"),
           "AxiosError: timeout of 20000ms exceeded"),
   Failure(Str("socket hang up"), Undefined, "Error: socket hang up"),
   Failure(Undefined, Undefined, "aborted")}

FewErrors == {Failure(Str("socket hang up"), Str("ECONNRESET"), "Error: socket hang up")}

(***************************************************************************)
(* The state: the file that is deployed, and per inbound request the       *)
(* handler's position and locals, the GETs it has issued and the           *)
(* responses the caller has received.                                      *)
(***************************************************************************)
VARIABLES file, pc, query, nbaUrl, prime, nbaResp, caught, headers, sent, log

vars == <<file, pc, query, nbaUrl, prime, nbaResp, caught, headers, sent, log>>

None == [t |-> "none"]

PrimeUrl == "https://www.nba.com"
JarPrimeUrl == "https://www.nba.com/stats/teams/traditional"

\* the Cookie header of a GET of part_000's client is the cookie jar's
JarCookie == [t |-> "jar"]

Get(target, url, cookie) ==
  [ev |-> "GET", target |-> target, url |-> url, cookie |-> cookie]
Arrived(target) == [ev |-> "response", target |-> target]
Failed(target) == [ev |-> "failure", target |-> target]

Init ==
  /\ file \in Files
  /\ pc = [r \in Requests |-> "idle"]
  /\ query = [r \in Requests |-> None]
  /\ nbaUrl = [r \in Requests |-> ""]
  /\ prime = [r \in Requests |-> None]
  /\ nbaResp = [r \in Requests |-> None]
  /\ caught = [r \in Requests |-> None]
  /\ headers = [r \in Requests |-> NoHeaders]
  /\ sent = [r \in Requests |-> <<>>]
  /\ log = [r \in Requests |-> <<>>]

(***************************************************************************)
(* src/server.js, app.get("/nba/teamstats")                                *)
(***************************************************************************)
\* both GETs issued at once, the stats GET not awaiting the priming GET
OnHandleBoth(url) ==
  <<Get("prime", PrimeUrl, Undefined), Get("stats", url, Undefined)>>

\* the GETs issued as the handler starts
OnHandle(url) == <<Get("prime", PrimeUrl, Undefined)>>

\* the Set-Cookie list kept at module scope by the first priming response
CookieSourceShared(r, resp) ==
  IF \E q \in Requests : prime[q] # None
    THEN SetCookies(prime[CHOOSE q \in Requests : prime[q] # None])
    ELSE SetCookies(resp)

\* the Set-Cookie list the cookies of request r's stats GET are taken from
CookieSource(r, resp) == SetCookies(resp)

\* the request arrives: the URL is built and the priming GET issued
Handle(r, q) ==
  /\ file = "server.js"
  /\ pc[r] = "idle"
  /\ pc' = [pc EXCEPT ![r] = "prime"]
  /\ query' = [query EXCEPT ![r] = q]
  /\ nbaUrl' = [nbaUrl EXCEPT ![r] = UrlToString(NbaUrl(q))]
  /\ log' = [log EXCEPT ![r] = @ \o OnHandle(nbaUrl'[r])]
  /\ UNCHANGED <<file, prime, nbaResp, caught, headers, sent>>

\* the priming GET resolves: the cookie header is built, the stats GET issued
PrimeResolved(r, resp) ==
  /\ file = "server.js"
  /\ pc[r] = "prime"
  /\ pc' = [pc EXCEPT ![r] = "stats"]
  /\ prime' = [prime EXCEPT ![r] = resp]
  /\ log' = [log EXCEPT ![r] =
       @ \o <<Arrived("prime"),
              Get("stats", nbaUrl[r], CookieField(CookieHeader(CookieSource(r, resp))))>>]
  /\ UNCHANGED <<file, query, nbaUrl, nbaResp, caught, headers, sent>>

\* the priming GET rejects: the catch block answers
PrimeRejected(r, e) ==
  /\ file = "server.js"
  /\ pc[r] = "prime"
  /\ pc' = [pc EXCEPT ![r] = "done"]
  /\ caught' = [caught EXCEPT ![r] = e]
  /\ headers' = [headers EXCEPT ![r] = CatchHeaders(@)]
  /\ sent' = [sent EXCEPT ![r] = Append(@, FailureResponse(headers'[r], e))]
  /\ log' = [log EXCEPT ![r] = Append(@, Failed("prime"))]
  /\ UNCHANGED <<file, query, nbaUrl, prime, nbaResp>>

\* the stats GET resolves: pass-through or debug payload
StatsResolved(r, resp) ==
  /\ file = "server.js"
  /\ pc[r] = "stats"
  /\ pc' = [pc EXCEPT ![r] = "done"]
  /\ nbaResp' = [nbaResp EXCEPT ![r] = resp]
  /\ headers' = [headers EXCEPT ![r] = setCors(@)]
  /\ sent' = [sent EXCEPT ![r] = Append(@, Respond(headers'[r], resp, prime[r]))]
  /\ log' = [log EXCEPT ![r] = Append(@, Arrived("stats"))]
  /\ UNCHANGED <<file, query, nbaUrl, prime, caught>>

\* the stats GET rejects: the catch block answers
StatsRejected(r, e) ==
  /\ file = "server.js"
  /\ pc[r] = "stats"
  /\ pc' = [pc EXCEPT ![r] = "done"]
  /\ caught' = [caught EXCEPT ![r] = e]
  /\ headers' = [headers EXCEPT ![r] = CatchHeaders(@)]
  /\ sent' = [sent EXCEPT ![r] = Append(@, FailureResponse(headers'[r], e))]
  /\ log' = [log EXCEPT ![r] = Append(@, Failed("stats"))]
  /\ UNCHANGED <<file, query, nbaUrl, prime, nbaResp>>

(***************************************************************************)
(* src/unnamed/part_000, app.get("/nba/teamstats"): no try/catch; a GET    *)
(* that rejects rejects the handler's promise, which Express 4 (the        *)
(* version app.options("*") runs on) does not observe: nothing more runs   *)
(* for the request and nothing is sent.                                    *)
(***************************************************************************)
JarHandle(r, q) ==
  /\ file = "part_000"
  /\ pc[r] = "idle"
  /\ pc' = [pc EXCEPT ![r] = "prime"]
  /\ query' = [query EXCEPT ![r] = q]
  /\ headers' = [headers EXCEPT ![r] = setCors(@)]
  /\ log' = [log EXCEPT ![r] = Append(@, Get("prime", JarPrimeUrl, JarCookie))]
  /\ UNCHANGED <<file, nbaUrl, prime, nbaResp, caught, sent>>

JarPrimeResolved(r, resp) ==
  /\ file = "part_000"
  /\ pc[r] = "prime"
  /\ pc' = [pc EXCEPT ![r] = "stats"]
  /\ prime' = [prime EXCEPT ![r] = resp]
  /\ nbaUrl' = [nbaUrl EXCEPT ![r] =
       UrlToString(buildLeagueDashTeamStatsUrl(Season(query[r]), SeasonType(query[r])))]
  /\ log' = [log EXCEPT ![r] =
       @ \o <<Arrived("prime"), Get("stats", nbaUrl'[r], JarCookie)>>]
  /\ UNCHANGED <<file, query, nbaResp, caught, headers, sent>>

JarPrimeRejected(r, e) ==
  /\ file = "part_000"
  /\ pc[r] = "prime"
  /\ pc' = [pc EXCEPT ![r] = "rejected"]
  /\ caught' = [caught EXCEPT ![r] = e]
  /\ log' = [log EXCEPT ![r] = Append(@, Failed("prime"))]
  /\ UNCHANGED <<file, query, nbaUrl, prime, nbaResp, headers, sent>>

JarStatsResolved(r, resp) ==
  /\ file = "part_000"
  /\ pc[r] = "stats"
  /\ pc' = [pc EXCEPT ![r] = "done"]
  /\ nbaResp' = [nbaResp EXCEPT ![r] = resp]
  /\ sent' = [sent EXCEPT ![r] =
       Append(@, JarRespond(headers[r], resp, PrimeDiagnostics(prime[r])))]
  /\ log' = [log EXCEPT ![r] = Append(@, Arrived("stats"))]
  /\ UNCHANGED <<file, query, nbaUrl, prime, caught, headers>>

JarStatsRejected(r, e) ==
  /\ file = "part_000"
  /\ pc[r] = "stats"
  /\ pc' = [pc EXCEPT ![r] = "rejected"]
  /\ caught' = [caught EXCEPT ![r] = e]
  /\ log' = [log EXCEPT ![r] = Append(@, Failed("stats"))]
  /\ UNCHANGED <<file, query, nbaUrl, prime, nbaResp, headers, sent>>

(***************************************************************************)
(* The specifications: the same handlers, fed from different input sets.   *)
(***************************************************************************)
Step(R, Q, P, S, E) ==
  \E r \in R :
    \/ \E q \in Q : Handle(r, q)
    \/ \E p \in P : PrimeResolved(r, p)
    \/ \E e \in E : PrimeRejected(r, e)
    \/ \E s \in S : StatsResolved(r, s)
    \/ \E e \in E : StatsRejected(r, e)
    \/ \E q \in Q : JarHandle(r, q)
    \/ \E p \in P : JarPrimeResolved(r, p)
    \/ \E e \in E : JarPrimeRejected(r, e)
    \/ \E s \in S : JarStatsResolved(r, s)
    \/ \E e \in E : JarStatsRejected(r, e)

\* one request, every kind of upstream answer and failure
Next == Step({1}, FewQueries, FewPrimes, RichStats, Errors)
Spec == Init /\ [][Next]_vars

\* one request, every kind of query
NextUrl == Step({1}, RichQueries, FewPrimes, FewStats, FewErrors)
SpecUrl == Init /\ [][NextUrl]_vars

\* one request, every kind of priming response
NextCookie == Step({1}, FewQueries, RichPrimes, FewStats, FewErrors)
SpecCookie == Init /\ [][NextCookie]_vars

\* concurrent requests, interleaved at every await
NextConc == Step(Requests, PairQueries, FewPrimes, FewStats, FewErrors)
SpecConc == Init /\ [][NextConc]_vars

\* two concurrent requests and their URLs
NextPair == Step({1, 2}, FewQueries, {PrimeResponse(200, Undefined)}, FewStats, FewErrors)
SpecPair == Init /\ [][NextPair]_vars

(***************************************************************************)
(* What the claims observe: the receiver's reading of a URL, the GETs a    *)
(* request has issued, the one response its caller holds.                  *)
(***************************************************************************)
RECURSIVE SplitOn(_, _)
\* the parts of s between the occurrences of the text sep
SplitOn(s, sep) ==
  LET at == {i \in 1..(Len(s) - Len(sep) + 1) : SubSeq(s, i, i + Len(sep) - 1) = sep}
  IN  IF at = {} THEN <<s>>
      ELSE <<SubSeq(s, 1, SetMin(at) - 1)>>
             \o SplitOn(SubSeq(s, SetMin(at) + Len(sep), Len(s)), sep)

RECURSIVE FormDecode(_)
\* the text a receiver decodes from a form-encoded one
FormDecode(s) ==
  IF s = "" THEN ""
  ELSE IF Ch(s, 1) = "+" THEN " " \o FormDecode(SubSeq(s, 2, Len(s)))
  ELSE IF Ch(s, 1) = "%" THEN
    LET at == {i \in 1..Len(PercentCodes) : PercentCodes[i][2] = Sub(s, 1, 3)}
    IN  (IF at = {} THEN "%" ELSE PercentCodes[SetMin(at)][1])
          \o FormDecode(SubSeq(s, IF at = {} THEN 2 ELSE 4, Len(s)))
  ELSE Ch(s, 1) \o FormDecode(SubSeq(s, 2, Len(s)))

\* scheme, host and path of a URL
UrlBase(url) == SplitFirst(url, "?")

\* the decoded name-value pairs of a URL's query, in order
UrlPairs(url) ==
  LET search == SubSeq(url, Len(UrlBase(url)) + 2, Len(url))
      parts == IF search = "" THEN <<>> ELSE SplitOn(search, "&")
  IN  [i \in 1..Len(parts) |->
         LET name == SplitFirst(parts[i], "=")
         IN  <<FormDecode(name),
               FormDecode(SubSeq(parts[i], Len(name) + 2, Len(parts[i])))>>]

\* the values a URL's query gives the parameter name, in order
ParamValues(url, name) ==
  LET hit == SelectSeq(UrlPairs(url), LAMBDA p : p[1] = name)
  IN  [i \in 1..Len(hit) |-> hit[i][2]]

GetsOf(r, target) ==
  SelectSeq(log[r], LAMBDA e : e.ev = "GET" /\ e.target = target)

StatsGetIssued(r) == Len(GetsOf(r, "stats")) > 0
StatsGet(r) == GetsOf(r, "stats")[1]

\* request r got an upstream response to its stats GET and answered it
Answered(r) == pc[r] = "done" /\ nbaResp[r] # None /\ Len(sent[r]) = 1
Reply(r) == sent[r][1]

IsPassThrough(resp) == DOMAIN resp.body = {"t", "v"}

IsDiagnostic(resp, upstream) ==
  /\ resp.status = 502
  /\ {"error", "upstreamStatus", "snippet"} \subseteq DOMAIN resp.body
  /\ resp.body.error = "Upstream did not return JSON"
  /\ resp.body.upstreamStatus = upstream.status
  /\ Len(resp.body.snippet) <= 500
  /\ resp.body.snippet = SubSeq(upstream.data, 1, Len(resp.body.snippet))
  /\ Len(resp.body.snippet) = 500 \/ resp.body.snippet = upstream.data

\* the content type names JSON, in whatever case
NamesJson(contentType) ==
  /\ contentType # Undefined
  /\ \E i \in 1..Len(contentType.v) :
       ToLowerCase(Sub(contentType.v, i, i + 15)) = "application/json"

\* the first 500 characters of the body, trimmed, start with "{"
SnippetOpensObject(data) == StartsWith(Trim(Sub(data, 1, 500)), "{")

WellFormed(data) == JSONParse(data).ok

(***************************************************************************)
(* C1: in server.js every upstream response to the stats GET is answered   *)
(* by a pass-through or by the 502 diagnostic (error "Upstream did not     *)
(* return JSON", upstreamStatus, a snippet of at most the first 500        *)
(* characters); the pass-through exactly when (the content type contains   *)
(* "application/json" in any case, or the trimmed snippet starts with "{") *)
(* and the whole body is well-formed JSON.                                 *)
(***************************************************************************)
C1_Classification ==
  \A r \in Requests :
    (file = "server.js" /\ pc[r] = "done" /\ nbaResp[r] # None) =>
      /\ Len(sent[r]) = 1
      /\ IsPassThrough(Reply(r)) \/ IsDiagnostic(Reply(r), nbaResp[r])
      /\ ~(IsPassThrough(Reply(r)) /\ IsDiagnostic(Reply(r), nbaResp[r]))
      /\ IsPassThrough(Reply(r)) <=>
           /\ NamesJson(nbaResp[r].contentType) \/ SnippetOpensObject(nbaResp[r].data)
           /\ WellFormed(nbaResp[r].data)

\* a JSON content type in capitals on a malformed body longer than the
\* snippet: the 502 diagnostic, its snippet cut at 500 characters
C1_Witness ==
  \E r \in Requests :
    /\ file = "server.js" /\ Answered(r)
    /\ nbaResp[r].contentType = Str("Application/JSON; charset=utf-8")
    /\ Len(nbaResp[r].data) > 500
    /\ ~WellFormed(nbaResp[r].data)
    /\ IsDiagnostic(Reply(r), nbaResp[r])
    /\ Len(Reply(r).body.snippet) = 500

(***************************************************************************)
(* C2: in server.js a pass-through carries the upstream status unchanged   *)
(* and the parsed upstream JSON as its body, for upstream 4xx and 5xx too. *)
(***************************************************************************)
C2_PassThroughUnchanged ==
  \A r \in Requests :
    (file = "server.js" /\ Answered(r) /\ IsPassThrough(Reply(r))) =>
      /\ Reply(r).status = nbaResp[r].status
      /\ Reply(r).body = JSONParse(nbaResp[r].data).val

\* an upstream 500 with a JSON body went through as 500
C2_Witness ==
  \E r \in Requests :
    /\ file = "server.js" /\ Answered(r) /\ IsPassThrough(Reply(r))
    /\ nbaResp[r].status = 500
    /\ Reply(r).status = 500
    /\ Reply(r).body.t = "obj"

(***************************************************************************)
(* C3: a request issues at most one priming GET and at most one stats GET, *)
(* whatever came back, and its stats GET only after the priming GET's      *)
(* response has arrived.                                                   *)
(***************************************************************************)
C3_OneGetEachInOrder ==
  \A r \in Requests :
    /\ Len(GetsOf(r, "prime")) <= 1
    /\ Len(GetsOf(r, "stats")) <= 1
    /\ \A i \in 1..Len(log[r]) :
         (log[r][i].ev = "GET" /\ log[r][i].target = "stats") =>
           \E j \in 1..(i - 1) : log[r][j] = Arrived("prime")

\* a request answered 502 to a non-JSON body, one GET of each kind behind it
C3_Witness ==
  \E r \in Requests :
    /\ Answered(r) /\ Reply(r).status = 502
    /\ nbaResp[r].status = 403
    /\ Len(GetsOf(r, "prime")) = 1
    /\ Len(GetsOf(r, "stats")) = 1

(***************************************************************************)
(* C4: the Season parameter of the upstream URL is the caller's season     *)
(* when supplied and "2025-26" when absent, the SeasonType parameter the   *)
(* caller's seasonType when supplied and "Regular Season" when absent; a   *)
(* supplied value, the empty one included, is never replaced by the        *)
(* default (a key given more than once arrives as its values joined by     *)
(* commas, the text a URL parameter takes from a list).                    *)
(***************************************************************************)
Forwarded(value, default) ==
  IF value = Undefined THEN default
  ELSE IF value.t = "str" THEN value.v
  ELSE Join(value.v, ",")

ValuesIn(pairs, name) ==
  LET hit == SelectSeq(pairs, LAMBDA p : p[1] = name)
  IN  [i \in 1..Len(hit) |-> hit[i][2]]

C5_FixedUrl ==
  /\ \A r \in Requests :
       StatsGetIssued(r) =>
         LET pairs == UrlPairs(StatsGet(r).url)
         IN  /\ UrlBase(StatsGet(r).url)
                  = "https://stats.nba.com/stats/leaguedashteamstats"
             /\ ValuesIn(pairs, "LeagueID") = <<"00">>
             /\ ValuesIn(pairs, "PerMode") = <<"Totals">>
             /\ ValuesIn(pairs, "MeasureType") = <<"Base">>
  /\ \A r1, r2 \in Requests :
       ( /\ StatsGetIssued(r1) /\ StatsGetIssued(r2)
         /\ query[r1].season = query[r2].season
         /\ query[r1].seasonType = query[r2].seasonType ) =>
         StatsGet(r1).url = StatsGet(r2).url

\* two requests with the same season, one of them asking for LeagueID=10
C5_Witness ==
  \E r1, r2 \in Requests :
    /\ StatsGetIssued(r1) /\ StatsGetIssued(r2)
    /\ query[r1].season = Str("2024-25") /\ query[r2].season = Str("2024-25")
    /\ query[r1].LeagueID = Undefined /\ query[r2].LeagueID = Str("10")
    /\ StatsGet(r1).url = StatsGet(r2).url

(***************************************************************************)
(* C6: in server.js a priming GET or stats GET that fails without an HTTP  *)
(* response is answered with status 500, error "NBA request failed" and    *)
(* the failure's message and code; after a failed priming GET no stats GET *)
(* is issued.                                                              *)
(***************************************************************************)
C6_FailureAnswered ==
  \A r \in Requests :
    (file = "server.js" /\ caught[r] # None) =>
      /\ Len(sent[r]) = 1
      /\ Reply(r).status = 500
      /\ DOMAIN Reply(r).body = {"error", "details", "code"}
      /\ Reply(r).body.error = "NBA request failed"
      /\ Reply(r).body.details =
           IF caught[r].message # Undefined THEN caught[r].message
           ELSE Str(caught[r].str)
      /\ Reply(r).body.code =
           IF caught[r].code # Undefined THEN caught[r].code ELSE Null
      /\ prime[r] = None => ~StatsGetIssued(r)

\* the priming GET timed out: 500 with the message and ECONNABORTED
C6_Witness ==
  \E r \in Requests :
    /\ file = "server.js" /\ pc[r] = "done"
    /\ prime[r] = None
    /\ caught[r].code = Str("ECONNABORTED")
    /\ Len(sent[r]) = 1
    /\ Reply(r).status = 500
    /\ Reply(r).body.code = Str("ECONNABORTED")
    /\ ~StatsGetIssued(r)

(***************************************************************************)
(* C7: in server.js every response of GET /nba/teamstats, pass-through,    *)
(* 502 diagnostic or 500 failure, carries the three CORS headers.          *)
(***************************************************************************)
HasCors(resp) ==
  /\ {"Access-Control-Allow-Origin", "Access-Control-Allow-Methods",
      "Access-Control-Allow-Headers"} \subseteq DOMAIN resp.headers
  /\ resp.headers["Access-Control-Allow-Origin"] = "*"
  /\ resp.headers["Access-Control-Allow-Methods"] = "GET,OPTIONS"
  /\ resp.headers["Access-Control-Allow-Headers"] = "Content-Type"

C7_CorsOnEveryResponse ==
  \A r \in Requests :
    file = "server.js" => \A i \in 1..Len(sent[r]) : HasCors(sent[r][i])

\* a 500 answered from the catch block after the stats GET failed
C7_Witness ==
  \E r \in Requests :
    /\ file = "server.js" /\ pc[r] = "done"
    /\ caught[r] # None /\ prime[r] # None
    /\ Len(sent[r]) = 1 /\ Reply(r).status = 500
    /\ HasCors(Reply(r))

(***************************************************************************)
(* C8: every request receives exactly one response, never zero and never   *)
(* two, also when the priming GET or the stats GET fails: a handler that   *)
(* has nothing more to run has answered once.                              *)
(***************************************************************************)
C8_ExactlyOneResponse ==
  \A r \in Requests :
    /\ Len(sent[r]) <= 1
    /\ pc[r] \in {"done", "rejected"} => Len(sent[r]) = 1

(***************************************************************************)
(* C9, as the claim states it: in server.js the Cookie header of the stats *)
(* GET is the text before the first ";" of each Set-Cookie entry of the    *)
(* priming response, in order, joined by "; "; with no Set-Cookie entries, *)
(* or a value that is no list, the stats GET has no Cookie header.         *)
(***************************************************************************)
\* the text before the first ";" of c
BeforeSemicolon(c) ==
  CHOOSE p \in {SubSeq(c, 1, k) : k \in 0..Len(c)} :
    /\ \A i \in 1..Len(p) : Ch(p, i) # ";"
    /\ Len(p) = Len(c) \/ Ch(c, Len(p) + 1) = ";"

RECURSIVE JoinedPairs(_)
JoinedPairs(entries) ==
  IF Len(entries) = 0 THEN ""
  ELSE IF Len(entries) = 1 THEN BeforeSemicolon(entries[1])
  ELSE JoinedPairs(SubSeq(entries, 1, Len(entries) - 1))
         \o "; " \o BeforeSemicolon(entries[Len(entries)])

\* the Set-Cookie entries of request r's priming response
OwnEntries(r) ==
  IF prime[r].setCookie # Undefined /\ prime[r].setCookie.t = "arr"
    THEN prime[r].setCookie.v ELSE <<>>

C9_CookieFromEntries ==
  \A r \in Requests :
    (file = "server.js" /\ StatsGetIssued(r)) =>
      StatsGet(r).cookie =
        IF Len(OwnEntries(r)) > 0 THEN Str(JoinedPairs(OwnEntries(r))) ELSE Undefined

(***************************************************************************)
(* C9, amended: in server.js the Cookie header of the stats GET is the     *)
(* text before the first ";" of each Set-Cookie entry of the priming       *)
(* response, in order, joined by "; "; when that text is empty (no         *)
(* Set-Cookie entries, a value that is no list, or a single entry with     *)
(* nothing before its first ";") the stats GET has no Cookie header.       *)
(***************************************************************************)
C9_CookieUnlessEmpty ==
  \A r \in Requests :
    (file = "server.js" /\ StatsGetIssued(r)) =>
      StatsGet(r).cookie =
        IF JoinedPairs(OwnEntries(r)) # "" THEN Str(JoinedPairs(OwnEntries(r)))
        ELSE Undefined

\* two entries, the first with attributes: both pairs, in order
C9_Witness ==
  \E r \in Requests :
    /\ file = "server.js" /\ StatsGetIssued(r)
    /\ prime[r].setCookie = Arr(<<"ak_bmsc=X1; Path=/; HttpOnly", "sid=7">>)
    /\ StatsGet(r).cookie = Str("ak_bmsc=X1; sid=7")

(***************************************************************************)
(* C10: in server.js, under any interleaving of concurrent requests, the   *)
(* cookies on a request's stats GET come only from that request's own      *)
(* priming response, and its response is made of its own upstream          *)
(* responses alone.                                                        *)
(***************************************************************************)
OwnPairs(r) == {BeforeSemicolon(OwnEntries(r)[i]) : i \in 1..Len(OwnEntries(r))}

SentPairs(r) ==
  IF StatsGet(r).cookie = Undefined THEN {}
  ELSE LET parts == SplitOn(StatsGet(r).cookie.v, "; ")
       IN  {parts[i] : i \in 1..Len(parts)}

C10_NoCrossRequestState ==
  \A r \in Requests :
    file = "server.js" =>
      /\ StatsGetIssued(r) => SentPairs(r) \subseteq OwnPairs(r)
      /\ (pc[r] = "done" /\ nbaResp[r] # None) =>
           /\ Len(sent[r]) = 1
           /\ \/ /\ IsPassThrough(Reply(r))
                 /\ Reply(r).status = nbaResp[r].status
                 /\ Reply(r).body = JSONParse(nbaResp[r].data).val
              \/ /\ IsDiagnostic(Reply(r), nbaResp[r])
                 /\ Reply(r).body.primeStatus = prime[r].status
                 /\ Reply(r).body.primeSetCookieCount = Len(OwnEntries(r))

\* two requests in flight at once, primed with different cookies, each
\* sending its own
C10_Witness ==
  \E r1, r2 \in Requests :
    /\ file = "server.js" /\ r1 # r2
    /\ StatsGetIssued(r1) /\ pc[r1] = "stats"
    /\ StatsGetIssued(r2) /\ pc[r2] = "stats"
    /\ StatsGet(r1).cookie = Str("sid=1")
    /\ StatsGet(r2).cookie = Str("sid=2; geo=us")

=============================================================================
